---- MODULE Spec2Model ----
(***************************************************************************)
(* Model of rayoptics/optical/opticalspec.py: the optical usage            *)
(* specification (OpticalSpecs, WvlSpec, PupilSpec, FieldSpec, Field) and  *)
(* the ray-bundle tracing built on it.                                     *)
(*                                                                         *)
(* Numbers.  A Python float is modelled by an integer in fixed point: the  *)
(* integer n stands for n/Den.  Inputs are drawn so that every product and *)
(* quotient the code forms is exact; floating-point rounding is not        *)
(* modelled.                                                               *)
(*                                                                         *)
(* Python values.  None, tuples, named tuples and raised exceptions are    *)
(* records [kind, items]; t[i] on a tuple is PyHasIndex/PyItem.            *)
(***************************************************************************)
EXTENDS Integers, Sequences, FiniteSets, TLC

VARIABLES
    spectral_region,  \* OpticalSpecs.spectral_region : WvlSpec
    field_of_view,    \* OpticalSpecs.field_of_view   : FieldSpec
    parax_data,       \* OpticalSpecs.parax_data
    seq_model,        \* the sequential model handed to every operation
    call              \* the last operation called: its arguments and outcome

vars == <<spectral_region, field_of_view, parax_data, seq_model, call>>

-----------------------------------------------------------------------------
(* Bounds of the model *)

MaxFields == 1      \* fields in the FieldSpec of Spec
MaxGeom == 1        \* versions 0..MaxGeom of the system geometry
MaxNum == 4         \* samples per axis of a fan or grid
MaxVig == 2         \* vignetting factors 0..MaxVig halves
MaxWvls == 4        \* wavelengths in a WvlSpec

(* Fixed point: n stands for n/Den. *)
Den == 6 * 10
One == Den
Half == Den \div 2

-----------------------------------------------------------------------------
(* Python values *)

None == [kind |-> "None", items |-> <<>>]
Tuple(s) == [kind |-> "tuple", items |-> s]
Raise(exc) == [kind |-> exc, items |-> <<>>]
IsRaised(v) == v.kind \in {"IndexError", "ValueError", "AttributeError",
                           "TraceError", "TypeError"}

\* t[i] is defined: Python accepts -len <= i < len
PyHasIndex(t, i) == /\ t.kind \in {"tuple", "RayPkg"}
                    /\ -Len(t.items) <= i
                    /\ i < Len(t.items)
PyItem(t, i) == IF i >= 0 THEN t.items[i + 1] ELSE t.items[Len(t.items) + i + 1]

-----------------------------------------------------------------------------
(* External collaborators (rayoptics.optical.raytrace, firstorder) *)

\* rt.RayPkg: namedtuple (ray, op, wvl)
RayPkg(ray, op, wvl) == [kind |-> "RayPkg", items |-> <<ray, op, wvl>>]

\* rt.trace(seq_model, pt0, dir0, wvl, eps) -> (ray, op, wvl).  The ray is
\* determined by the model, the start point, the aim point and the wavelength;
\* a ray aimed at a pupil point the system cannot pass fails.
RtTrace(sm, pt0, pt1, wvl) ==
    IF pt1 \in sm.missed
    THEN Raise("TraceError")
    ELSE Tuple(<< [geom |-> sm.geom, pt0 |-> pt0, pt1 |-> pt1, wvl |-> wvl],
                  [op_of |-> pt1], wvl >>)

\* rt.transfer_to_exit_pupil(ifc, (pt, dir), exp_dist) -> (point, dir, dist)
TransferToExitPupil(sm, ray, pd) ==
    Tuple(<< [exp_pt_of |-> ray], [b4_dir_of |-> ray], [exp_dist_of |-> pd] >>)

\* compute_first_order(seq_model, stop, wvl)
ComputeFirstOrder(sm, wvl) == [kind |-> "parax", geom |-> sm.geom, wvl |-> wvl]

-----------------------------------------------------------------------------
(* class Field *)

\* Field.__init__(x=0., y=0., wt=1.)
NewField == [x |-> 0, y |-> 0, vux |-> 0, vuy |-> 0, vlx |-> 0, vly |-> 0,
             wt |-> One, chief_ray |-> None, ref_sphere |-> None]

\* Field.update
FieldUpdate(f) == [f EXCEPT !.chief_ray = None, !.ref_sphere = None]

\* a*b of two fixed-point numbers
Mul(a, b) == (a * b) \div Den

\* apply_vignetting with the upper and lower factors of each axis exchanged
ApplyVignettingSwapped(f, pupil) ==
    LET px == pupil[1]
        py == pupil[2]
        vx == IF px < 0
              THEN (IF f.vux # 0 THEN Mul(px, One - f.vux) ELSE px)
              ELSE (IF f.vlx # 0 THEN Mul(px, One - f.vlx) ELSE px)
        vy == IF py < 0
              THEN (IF f.vuy # 0 THEN Mul(py, One - f.vuy) ELSE py)
              ELSE (IF f.vly # 0 THEN Mul(py, One - f.vly) ELSE py)
    IN  <<vx, vy>>

\* Field.apply_vignetting(pupil), pupil = <<px, py>>
ApplyVignetting(f, pupil) ==
    LET px == pupil[1]
        py == pupil[2]
        vx == IF px < 0
              THEN (IF f.vlx # 0 THEN Mul(px, One - f.vlx) ELSE px)
              ELSE (IF f.vux # 0 THEN Mul(px, One - f.vux) ELSE px)
        vy == IF py < 0
              THEN (IF f.vly # 0 THEN Mul(py, One - f.vly) ELSE py)
              ELSE (IF f.vuy # 0 THEN Mul(py, One - f.vuy) ELSE py)
    IN  <<vx, vy>>

-----------------------------------------------------------------------------
(* class FieldSpec *)

\* a Python int where None may stand instead
PyInt(i) == [kind |-> "int", items |-> <<i>>]

\* math.sqrt(v) of a squared fixed-point number, kept by its radicand
Sqrt(v) == [kind |-> "sqrt", items |-> <<v>>]

\* the loop of FieldSpec.max_field from index i (1-based) on
RECURSIVE MaxFieldScan(_, _, _, _)
MaxFieldScan(fields, i, max_fld_sqrd, max_fld) ==
    IF i > Len(fields)
    THEN Tuple(<<Sqrt(max_fld_sqrd), max_fld>>)
    ELSE LET f == fields[i]
             fld_sqrd == f.x * f.x + f.y * f.y
         IN  IF fld_sqrd > max_fld_sqrd
             THEN MaxFieldScan(fields, i + 1, fld_sqrd, PyInt(i - 1))
             ELSE MaxFieldScan(fields, i + 1, max_fld_sqrd, max_fld)

\* FieldSpec.max_field
MaxField(fields) == MaxFieldScan(fields, 1, 0, None)

\* FieldSpec.__init__(type='OBJ_ANG', flds=[0.], wide_angle=False)
NewFieldSpec(type, flds) ==
    [type |-> type,
     fields |-> [i \in 1..Len(flds) |-> [NewField EXCEPT !.y = flds[i]]],
     wide_angle |-> FALSE,
     index_labels |-> None]

Str(s) == [kind |-> "str", items |-> <<s>>]
\* str(field_norm*f.y)+'F', field_norm = 1/max_field or 1.0 when max_field == 0
FieldLabel(y, max_field) ==
    [kind |-> "label", items |-> <<y, max_field.items[1]>>]

\* FieldSpec.update_model
FieldSpecUpdateModel(fs) ==
    LET flds == [i \in 1..Len(fs.fields) |-> FieldUpdate(fs.fields[i])]
        mf == PyItem(MaxField(flds), 0)
        n == Len(flds)
        labels == [i \in 1..n |->
                     IF i = 1 THEN Str("axis")
                     ELSE IF i = n THEN Str("edge")
                     ELSE FieldLabel(flds[i].y, mf)]
    IN  [fs EXCEPT !.fields = flds, !.index_labels = Tuple(labels)]

\* the field-definition codes, letter by letter
TlaCode(a, b, c) == <<a, b, c>>
PosTlas == {TlaCode("X", "O", "B"), TlaCode("Y", "O", "B"),
            TlaCode("X", "A", "N"), TlaCode("Y", "A", "N"),
            TlaCode("X", "I", "M"), TlaCode("Y", "I", "M")}
VigTlas == {TlaCode("V", "U", "X"), TlaCode("V", "U", "Y"),
            TlaCode("V", "L", "X"), TlaCode("V", "L", "Y")}
WtfTla == TlaCode("W", "T", "F")
Tlas == PosTlas \cup VigTlas \cup {WtfTla}

\* str.lower on the letters of the codes
Lower(c) == CASE c = "X" -> "x" [] c = "Y" -> "y" [] c = "V" -> "v"
              [] c = "U" -> "u" [] c = "L" -> "l" [] OTHER -> c

\* f.__setattr__(attr, v)
SetAttr(f, attr, v) ==
    CASE attr = <<"x">> -> [f EXCEPT !.x = v]
      [] attr = <<"y">> -> [f EXCEPT !.y = v]
      [] attr = <<"w", "t">> -> [f EXCEPT !.wt = v]
      [] attr = <<"v", "u", "x">> -> [f EXCEPT !.vux = v]
      [] attr = <<"v", "u", "y">> -> [f EXCEPT !.vuy = v]
      [] attr = <<"v", "l", "x">> -> [f EXCEPT !.vlx = v]
      [] attr = <<"v", "l", "y">> -> [f EXCEPT !.vly = v]

\* FieldSpec.update_fields_cv_input(tla, dlist)
FieldSpecUpdateFieldsCvInput(fs, tla, dlist) ==
    LET type == IF tla[2] = "O" /\ tla[3] = "B" /\ tla[1] \in {"X", "Y"}
                THEN "OBJ_HT"
                ELSE IF tla[2] = "A" /\ tla[3] = "N" /\ tla[1] \in {"X", "Y"}
                THEN "OBJ_ANG"
                ELSE IF tla[2] = "I" /\ tla[3] = "M" /\ tla[1] \in {"X", "Y"}
                THEN "IMG_HT"
                ELSE fs.type
        flds == IF Len(fs.fields) # Len(dlist)
                THEN [i \in 1..Len(dlist) |-> NewField]
                ELSE fs.fields
        attr == IF tla[1] = "V"
                THEN <<Lower(tla[1]), Lower(tla[2]), Lower(tla[3])>>
                ELSE IF tla[1] = "X" \/ tla[1] = "Y"
                THEN <<Lower(tla[1])>>
                ELSE IF tla = WtfTla
                THEN <<"w", "t">>
                ELSE <<>>
    IN  [fs EXCEPT !.type = type,
                   !.fields = [i \in 1..Len(flds) |-> SetAttr(flds[i], attr, dlist[i])]]

-----------------------------------------------------------------------------
(* class WvlSpec *)

Named(c) == [name |-> c]
\* srgb.wvl_to_rgb(w)
WvlToRgb(w) == [rgb_of |-> w]

\* WvlSpec.calc_colors
CalcColors(wavelengths) ==
    LET num_wvls == Len(wavelengths)
    IN  IF num_wvls = 1 THEN <<Named("black")>>
        ELSE IF num_wvls = 2 THEN <<Named("red"), Named("blue")>>
        ELSE IF num_wvls = 3 THEN <<Named("red"), Named("green"), Named("blue")>>
        ELSE [i \in 1..num_wvls |-> WvlToRgb(wavelengths[i])]

\* WvlSpec.set_from_list(wlwts), wlwts a sequence of <<wavelength, weight>>
WvlSetFromList(ws, wlwts) ==
    LET wavelengths == [i \in 1..Len(wlwts) |-> wlwts[i][1]]
        spectral_wts == [i \in 1..Len(wlwts) |-> wlwts[i][2]]
    IN  [ws EXCEPT !.wavelengths = wavelengths,
                   !.spectral_wts = spectral_wts,
                   !.render_colors = CalcColors(wavelengths)]

\* WvlSpec.__init__(wlwts=[(550., 1.)], ref_wl=0)
NewWvlSpec(wlwts, ref_wl) ==
    WvlSetFromList([wavelengths |-> <<>>, spectral_wts |-> <<>>,
                    render_colors |-> <<>>, reference_wvl |-> ref_wl,
                    coating_wvl |-> 550], wlwts)

\* WvlSpec.add(wl, wt): both appends happen, then self.spectrum, an attribute
\* no WvlSpec has, raises AttributeError
WvlAdd(ws, wl, wt) ==
    [ws |-> [ws EXCEPT !.wavelengths = Append(ws.wavelengths, wl),
                       !.spectral_wts = Append(ws.spectral_wts, wt)],
     out |-> Raise("AttributeError")]

\* WvlSpec.central_wvl
CentralWvl(ws) ==
    LET t == Tuple(ws.wavelengths)
    IN  IF PyHasIndex(t, ws.reference_wvl)
        THEN PyInt(PyItem(t, ws.reference_wvl))
        ELSE Raise("IndexError")

-----------------------------------------------------------------------------
(* class OpticalSpecs *)

\* OpticalSpecs.obj_coords(fld): the object point, by its rule and operands
ObjCoords(fs, pd, fld) ==
    IF fs.type = "OBJ_ANG"
    THEN [rule |-> "-tan(ang)*(obj_dist+enp_dist)", x |-> fld.x, y |-> fld.y, fod |-> pd]
    ELSE IF fs.type = "IMG_HT"
    THEN [rule |-> "-red*img_pt", x |-> fld.x, y |-> fld.y, fod |-> pd]
    ELSE [rule |-> "obj_pt", x |-> fld.x, y |-> fld.y, fod |-> pd]

\* OpticalSpecs.trace_base(seq_model, pupil, fld, wvl)
TraceBase(sm, fs, pd, pupil, fld, wvl) ==
    LET vig_pupil == ApplyVignetting(fld, pupil)
        pt0 == ObjCoords(fs, pd, fld)
    IN  RtTrace(sm, pt0, vig_pupil, wvl)

\* OpticalSpecs.trace_chief_ray(seq_model, fld, wvl, foc) -> (cr, cr_exp_seg)
TraceChiefRay(sm, fs, pd, fld, wvl) ==
    LET r == TraceBase(sm, fs, pd, <<0, 0>>, fld, wvl)
    IN  IF IsRaised(r) THEN r
        ELSE LET cr == RayPkg(r.items[1], r.items[2], r.items[3])
             IN  Tuple(<<cr, TransferToExitPupil(sm, cr.items[1], pd)>>)

\* the reference sphere package built from a chief ray and its exit pupil
\* segment (opticalspec.py 255-278 and 290-316)
RefSpherePkg(sm, pd, cr, cr_exp_seg, wvl) ==
    LET image_pt == [image_pt_of |-> cr.items[1]]
        cr_exp_pt == cr_exp_seg.items[1]
        cr_exp_dist == cr_exp_seg.items[3]
        img_pt == [image_pt |-> image_pt, img_dist_of |-> sm.geom]
        ref_sphere == Tuple(<<image_pt, cr_exp_pt, cr_exp_dist,
                              [ref_dir_of |-> <<img_pt, cr_exp_pt>>],
                              [radius_of |-> <<img_pt, cr_exp_pt>>]>>)
    IN  Tuple(<<ref_sphere, pd,
                [rndx |-> wvl, at |-> "obj", geom |-> sm.geom],
                [rndx |-> wvl, at |-> "img", geom |-> sm.geom],
                [z_dir_of |-> sm.geom]>>)

\* OpticalSpecs.setup_pupil_coords(seq_model, fld, wvl, foc, chief_ray_pkg)
\* -> [out: (ref_sphere_pkg, chief_ray_pkg) or the exception raised,
\*     traced: calls of trace_chief_ray]
SetupPupilCoords(sm, fs, pd, fld, wvl, chief_ray_pkg) ==
    IF chief_ray_pkg # None /\ ~PyHasIndex(chief_ray_pkg, 2)
    THEN [out |-> Raise("IndexError"), traced |-> 0]
    ELSE
    LET retrace == IF chief_ray_pkg = None THEN TRUE
                   ELSE PyItem(chief_ray_pkg, 2) # wvl
        pkg == IF retrace THEN TraceChiefRay(sm, fs, pd, fld, wvl)
               ELSE chief_ray_pkg
        traced == IF retrace THEN 1 ELSE 0
    IN  IF IsRaised(pkg) THEN [out |-> pkg, traced |-> traced]
        ELSE IF Len(pkg.items) # 2
        THEN [out |-> Raise("ValueError"), traced |-> traced]
        ELSE LET cr == pkg.items[1]
                 cr_exp_seg == pkg.items[2]
             IN  IF cr.kind # "RayPkg"
                 THEN [out |-> Raise("AttributeError"), traced |-> traced]
                 ELSE [out |-> Tuple(<<RefSpherePkg(sm, pd, cr, cr_exp_seg, wvl), pkg>>),
                       traced |-> traced]

\* rt.wave_abr(seq_model, fld, wvl, ray_pkg)
WaveAbr(sm, fld, wvl, ray_pkg) ==
    Tuple(<<[opd_of |-> ray_pkg.items[1], ref_sphere |-> fld.ref_sphere]>>)

\* OpticalSpecs.trace_with_opd(seq_model, pupil, fld, wvl, foc)
\* -> [fld: the Field afterwards, out, traced]
TraceWithOpd(sm, fs, pd, pupil, fld, wvl) ==
    LET ray_pkg == TraceBase(sm, fs, pd, pupil, fld, wvl)
        sp == SetupPupilCoords(sm, fs, pd, fld, wvl, None)
    IN  IF IsRaised(ray_pkg) THEN [fld |-> fld, out |-> ray_pkg, traced |-> 0]
        ELSE IF IsRaised(sp.out) THEN [fld |-> fld, out |-> sp.out, traced |-> sp.traced]
        ELSE LET fld2 == [fld EXCEPT !.chief_ray = sp.out.items[2],
                                     !.ref_sphere = sp.out.items[1]]
                 opd_pkg == WaveAbr(sm, fld2, wvl, ray_pkg)
             IN  [fld |-> fld2,
                  out |-> Tuple(<<ray_pkg.items[1], ray_pkg.items[2],
                                  ray_pkg.items[3], opd_pkg.items[1]>>),
                  traced |-> sp.traced]

\* OpticalSpecs.setup_canonical_coords(seq_model, fld, wvl)
\* -> [fld: the Field afterwards, out, traced]
SetupCanonicalCoords(sm, fs, pd, fld, wvl) ==
    LET miss == fld.chief_ray = None
        r == TraceBase(sm, fs, pd, <<0, 0>>, fld, wvl)
    IN  IF miss /\ IsRaised(r) THEN [fld |-> fld, out |-> r, traced |-> 1]
        ELSE
        LET fld1 == IF miss
                    THEN [fld EXCEPT !.chief_ray =
                                       RayPkg(r.items[1], r.items[2], r.items[3])]
                    ELSE fld
            cr == fld1.chief_ray
            traced == IF miss THEN 1 ELSE 0
        IN  IF cr.kind # "RayPkg"
            THEN [fld |-> fld1, out |-> Raise("AttributeError"), traced |-> traced]
            ELSE LET cr_exp_seg == TransferToExitPupil(sm, cr.items[1], pd)
                     rs == RefSpherePkg(sm, pd, cr, cr_exp_seg, wvl)
                 IN  [fld |-> [fld1 EXCEPT !.ref_sphere = rs],
                      out |-> Tuple(<<rs, cr>>),
                      traced |-> traced]

-----------------------------------------------------------------------------
(* OpticalSpecs: fans, grids and boundary rays *)

\* PupilSpec.default_pupil_rays
DefaultPupilRays == <<<<0, 0>>, <<One, 0>>, <<-One, 0>>, <<0, One>>, <<0, -One>>>>

\* an img_filter callable, by name; None is no filter
Func(name) == [kind |-> "function", items |-> <<name>>]
\* img_filter(pupil, ray_pkg): "image_pt" maps every sample to a value,
\* "skip_none" maps a sample without a ray package to None
CallFilter(flt, pupil, ray_pkg) ==
    IF flt = Func("skip_none") /\ ray_pkg = None
    THEN None
    ELSE [kind |-> "filtered", items |-> <<pupil, ray_pkg>>]

\* the loop of OpticalSpecs.trace_fan from pass r on; the pupil array is the
\* one apply_vignetting scales in place (pupil[:] of an ndarray is a view)
RECURSIVE TraceFanLoop(_, _, _, _, _, _, _, _, _, _, _)
TraceFanLoop(sm, fs, pd, fld, wvl, img_filter, start, step, num, r, fan) ==
    IF r >= num THEN Tuple(fan)
    ELSE LET ray_pkg == TraceBase(sm, fs, pd, start, fld, wvl)
             pupil == ApplyVignetting(fld, start)
             cell == IF img_filter # None
                     THEN Tuple(<<pupil, CallFilter(img_filter, pupil, ray_pkg)>>)
                     ELSE Tuple(<<pupil, ray_pkg>>)
         IN  IF IsRaised(ray_pkg) THEN ray_pkg
             ELSE TraceFanLoop(sm, fs, pd, fld, wvl, img_filter,
                               <<start[1] + step[1], start[2] + step[2]>>,
                               step, num, r + 1, Append(fan, cell))

\* OpticalSpecs.trace_fan(seq_model, fan_rng, fld, wvl, foc, img_filter)
TraceFan(sm, fs, pd, fan_rng, fld, wvl, img_filter) ==
    LET start == fan_rng[1]
        stop == fan_rng[2]
        num == fan_rng[3]
        step == <<(stop[1] - start[1]) \div (num - 1),
                  (stop[2] - start[2]) \div (num - 1)>>
    IN  TraceFanLoop(sm, fs, pd, fld, wvl, img_filter, start, step, num, 0, <<>>)

\* trace_grid taking the samples at radius 1 as inside the pupil
GridCellInclusive(sm, fs, pd, fld, wvl, img_filter, append_if_none, start) ==
    IF start[1] * start[1] + start[2] * start[2] <= One * One
    THEN LET ray_pkg == TraceBase(sm, fs, pd, start, fld, wvl)
             pupil == ApplyVignetting(fld, start)
         IN  IF IsRaised(ray_pkg) THEN ray_pkg
             ELSE IF img_filter # None
             THEN Tuple(<<CallFilter(img_filter, pupil, ray_pkg)>>)
             ELSE Tuple(<<Tuple(<<pupil[1], pupil[2], ray_pkg>>)>>)
    ELSE IF img_filter # None
         THEN LET result == CallFilter(img_filter, start, None)
              IN  IF result # None \/ append_if_none
                  THEN Tuple(<<result>>) ELSE Tuple(<<>>)
         ELSE IF append_if_none
              THEN Tuple(<<Tuple(<<start[1], start[2], None>>)>>)
              ELSE Tuple(<<>>)

\* the body of the inner loop of trace_grid: what one sample appends
GridCell(sm, fs, pd, fld, wvl, img_filter, append_if_none, start) ==
    IF start[1] * start[1] + start[2] * start[2] < One * One
    THEN LET ray_pkg == TraceBase(sm, fs, pd, start, fld, wvl)
             pupil == ApplyVignetting(fld, start)
         IN  IF IsRaised(ray_pkg) THEN ray_pkg
             ELSE IF img_filter # None
             THEN Tuple(<<CallFilter(img_filter, pupil, ray_pkg)>>)
             ELSE Tuple(<<Tuple(<<pupil[1], pupil[2], ray_pkg>>)>>)
    ELSE IF img_filter # None
         THEN LET result == CallFilter(img_filter, start, None)
              IN  IF result # None \/ append_if_none
                  THEN Tuple(<<result>>) ELSE Tuple(<<>>)
         ELSE IF append_if_none
              THEN Tuple(<<Tuple(<<start[1], start[2], None>>)>>)
              ELSE Tuple(<<>>)

\* the inner loop of trace_grid (for j in range(num)) from pass j on
RECURSIVE TraceGridRow(_, _, _, _, _, _, _, _, _, _, _, _)
TraceGridRow(sm, fs, pd, fld, wvl, img_filter, append_if_none, start, step, num, j, working_grid) ==
    IF j >= num THEN [start |-> start, working_grid |-> Tuple(working_grid)]
    ELSE LET c == GridCell(sm, fs, pd, fld, wvl, img_filter, append_if_none, start)
         IN  IF IsRaised(c) THEN [start |-> start, working_grid |-> c]
             ELSE TraceGridRow(sm, fs, pd, fld, wvl, img_filter, append_if_none,
                               <<start[1], start[2] + step[2]>>, step, num, j + 1,
                               working_grid \o c.items)

\* the outer loop of trace_grid (for i in range(num)) from pass i on
RECURSIVE TraceGridLoop(_, _, _, _, _, _, _, _, _, _, _, _, _, _)
TraceGridLoop(sm, fs, pd, fld, wvl, img_filter, form, append_if_none, grid_rng, start, step, num, i, grid) ==
    IF i >= num THEN Tuple(grid)
    ELSE LET row == TraceGridRow(sm, fs, pd, fld, wvl, img_filter, append_if_none,
                                 start, step, num, 0,
                                 IF form = "list" THEN grid ELSE <<>>)
             grid2 == IF form = "list" THEN row.working_grid.items
                      ELSE Append(grid, row.working_grid)
         IN  IF IsRaised(row.working_grid) THEN row.working_grid
             ELSE TraceGridLoop(sm, fs, pd, fld, wvl, img_filter, form,
                                append_if_none, grid_rng,
                                <<row.start[1] + step[1], grid_rng[1][2]>>,
                                step, num, i + 1, grid2)

\* OpticalSpecs.trace_grid(seq_model, grid_rng, fld, wvl, foc, img_filter,
\*                         form, append_if_none); the nested lists returned
TraceGrid(sm, fs, pd, grid_rng, fld, wvl, img_filter, form, append_if_none) ==
    LET start == grid_rng[1]
        stop == grid_rng[2]
        num == grid_rng[3]
        step == <<(stop[1] - start[1]) \div (num - 1),
                  (stop[2] - start[2]) \div (num - 1)>>
    IN  TraceGridLoop(sm, fs, pd, fld, wvl, img_filter, form, append_if_none,
                      grid_rng, start, step, num, 0, <<>>)

\* the loop of trace_boundary_rays_at_field from pupil ray k (1-based) on
RECURSIVE TraceBoundaryLoop(_, _, _, _, _, _, _, _)
TraceBoundaryLoop(sm, fs, pd, fld, wvl, pupil_rays, k, rim_rays) ==
    IF k > Len(pupil_rays) THEN Tuple(rim_rays)
    ELSE LET r == TraceBase(sm, fs, pd, pupil_rays[k], fld, wvl)
         IN  IF IsRaised(r) THEN r
             ELSE TraceBoundaryLoop(sm, fs, pd, fld, r.items[3], pupil_rays, k + 1,
                                    Append(rim_rays, Tuple(r.items)))

\* OpticalSpecs.trace_boundary_rays_at_field(seq_model, fld, wvl)
TraceBoundaryRaysAtField(sm, fs, pd, fld, wvl) ==
    TraceBoundaryLoop(sm, fs, pd, fld, wvl, DefaultPupilRays, 1, <<>>)

-----------------------------------------------------------------------------
(* Specification Spec: an OpticalSpecs, its FieldSpec and the caches of its
   Fields under update_model, update_fields_cv_input, trace_chief_ray,
   setup_pupil_coords, trace_with_opd and setup_canonical_coords *)

Wvls == {486, 587}
FldVals == {0, One}
DLists == UNION {[1..n -> FldVals] : n \in 1..MaxFields}
Pupils == {<<0, 0>>, <<One, 0>>}
\* the codes given in this specification: field angles in y
SpecTlas == {TlaCode("Y", "A", "N")}

\* OpticalSpecs.__init__
Init ==
    /\ spectral_region = NewWvlSpec(<<<<550, One>>>>, 0)
    /\ field_of_view = NewFieldSpec("OBJ_ANG", <<0>>)
    /\ parax_data = None
    /\ seq_model = [geom |-> 0, missed |-> {}]
    /\ call = [op |-> "__init__"]

\* OpticalSpecs.update_model(seq_model), the model at geometry version g
UpdateModel(g) ==
    LET sm == [geom |-> g, missed |-> seq_model.missed]
        fs == FieldSpecUpdateModel(field_of_view)
        wvl == CentralWvl(spectral_region)
    IN  /\ seq_model' = sm
        /\ field_of_view' = fs
        /\ parax_data' = IF IsRaised(wvl) THEN parax_data
                         ELSE ComputeFirstOrder(sm, wvl.items[1])
        /\ call' = [op |-> "update_model",
                    out |-> IF IsRaised(wvl) THEN wvl ELSE None]
        /\ UNCHANGED spectral_region

\* field_of_view.update_fields_cv_input(tla, dlist)
UpdateFieldsCvInput(tla, dlist) ==
    /\ field_of_view' = FieldSpecUpdateFieldsCvInput(field_of_view, tla, dlist)
    /\ call' = [op |-> "update_fields_cv_input", tla |-> tla]
    /\ UNCHANGED <<spectral_region, parax_data, seq_model>>

\* the chief ray packages a caller can hold: the one the last call returned
Held ==
    IF call.op = "trace_chief_ray" /\ ~IsRaised(call.out) THEN {call.out}
    ELSE IF call.op = "setup_pupil_coords" /\ ~IsRaised(call.out)
    THEN {call.out.items[2]}
    ELSE {}

\* trace_chief_ray(seq_model, fields[fi], wvl, foc); fi is 1-based here
TraceChiefRayCall(fi, wvl) ==
    /\ parax_data # None
    /\ fi \in 1..Len(field_of_view.fields)
    /\ call' = [op |-> "trace_chief_ray", fi |-> fi, wvl |-> wvl,
                out |-> TraceChiefRay(seq_model, field_of_view, parax_data,
                                      field_of_view.fields[fi], wvl)]
    /\ UNCHANGED <<spectral_region, field_of_view, parax_data, seq_model>>

\* setup_pupil_coords(seq_model, fields[fi], wvl, foc, pkg)
SetupPupilCoordsCall(fi, wvl, pkg) ==
    /\ parax_data # None
    /\ fi \in 1..Len(field_of_view.fields)
    /\ LET r == SetupPupilCoords(seq_model, field_of_view, parax_data,
                                 field_of_view.fields[fi], wvl, pkg)
       IN  call' = [op |-> "setup_pupil_coords", fi |-> fi, wvl |-> wvl,
                    pkg |-> pkg, traced |-> r.traced, out |-> r.out]
    /\ UNCHANGED <<spectral_region, field_of_view, parax_data, seq_model>>

\* trace_with_opd(seq_model, pupil, fields[fi], wvl, foc)
TraceWithOpdCall(fi, wvl, pupil) ==
    /\ parax_data # None
    /\ fi \in 1..Len(field_of_view.fields)
    /\ LET fld == field_of_view.fields[fi]
           r == TraceWithOpd(seq_model, field_of_view, parax_data, pupil, fld, wvl)
       IN  /\ field_of_view' = [field_of_view EXCEPT !.fields[fi] = r.fld]
           /\ call' = [op |-> "trace_with_opd", fi |-> fi, wvl |-> wvl,
                       pre |-> fld.chief_ray, traced |-> r.traced, out |-> r.out]
    /\ UNCHANGED <<spectral_region, parax_data, seq_model>>

\* setup_canonical_coords(seq_model, fields[fi], wvl)
SetupCanonicalCoordsCall(fi, wvl) ==
    /\ parax_data # None
    /\ fi \in 1..Len(field_of_view.fields)
    /\ LET fld == field_of_view.fields[fi]
           r == SetupCanonicalCoords(seq_model, field_of_view, parax_data, fld, wvl)
       IN  /\ field_of_view' = [field_of_view EXCEPT !.fields[fi] = r.fld]
           /\ call' = [op |-> "setup_canonical_coords", fi |-> fi, wvl |-> wvl,
                       pre |-> fld.chief_ray, traced |-> r.traced, out |-> r.out]
    /\ UNCHANGED <<spectral_region, parax_data, seq_model>>

Next ==
    \/ \E g \in 0..MaxGeom : UpdateModel(g)
    \/ \E tla \in SpecTlas, dlist \in DLists : UpdateFieldsCvInput(tla, dlist)
    \/ \E fi \in 1..MaxFields, wvl \in Wvls : TraceChiefRayCall(fi, wvl)
    \/ \E fi \in 1..Len(field_of_view.fields), wvl \in Wvls :
         \E pkg \in {None, field_of_view.fields[fi].chief_ray} \cup Held :
            SetupPupilCoordsCall(fi, wvl, pkg)
    \/ \E fi \in 1..MaxFields, wvl \in Wvls, pupil \in Pupils :
         TraceWithOpdCall(fi, wvl, pupil)
    \/ \E fi \in 1..MaxFields, wvl \in Wvls : SetupCanonicalCoordsCall(fi, wvl)

Spec == Init /\ [][Next]_vars

-----------------------------------------------------------------------------
(* Properties of Spec *)

\* p is a chief ray package (cr, cr_exp_seg) as trace_chief_ray returns it
IsChiefRayPkg(p) ==
    /\ p.kind = "tuple"
    /\ Len(p.items) = 2
    /\ p.items[1].kind = "RayPkg"
\* the wavelength a chief ray package was traced at
PkgWvl(p) == p.items[1].items[3]
\* the traced ray in a value of the Field.chief_ray slot
CachedRay(c) == IF c.kind = "RayPkg" THEN c.items[1] ELSE c.items[1].items[1]
\* the chief ray a reference sphere package was built from
RefSphereRay(rs) == rs.items[1].items[1].image_pt_of
\* the wavelength of the refractive indices in a reference sphere package
RefSphereWvl(rs) == rs.items[3].rndx

\* C1: setup_pupil_coords given a chief ray package traced at wvl completes
\* without tracing the chief ray and returns that package; given none, or one
\* traced at another wavelength, it retraces at wvl and returns the new package.
C1_ReuseOrRetrace ==
    call.op = "setup_pupil_coords" =>
        IF IsChiefRayPkg(call.pkg) /\ PkgWvl(call.pkg) = call.wvl
        THEN /\ call.traced = 0
             /\ ~IsRaised(call.out)
             /\ call.out.items[2] = call.pkg
        ELSE IF call.pkg = None \/ IsChiefRayPkg(call.pkg)
        THEN /\ call.traced = 1
             /\ ~IsRaised(call.out)
             /\ IsChiefRayPkg(call.out.items[2])
             /\ PkgWvl(call.out.items[2]) = call.wvl
        ELSE TRUE

\* C2: a Field's chief_ray and ref_sphere caches are empty unless they were
\* written for the Field's present position (x, y) and the present geometry.
C2_CachesFresh ==
    \A i \in 1..Len(field_of_view.fields) :
        LET f == field_of_view.fields[i]
            fresh(ray) == /\ ray.pt0.x = f.x
                          /\ ray.pt0.y = f.y
                          /\ ray.geom = seq_model.geom
        IN  /\ f.chief_ray # None => fresh(CachedRay(f.chief_ray))
            /\ f.ref_sphere # None => fresh(RefSphereRay(f.ref_sphere))

\* C3: the chief ray setup_canonical_coords returns and leaves cached was
\* traced at the wavelength of the call, as the reference sphere returned with
\* it; a call that finds a chief ray of that wavelength cached does not retrace.
C3_CanonicalOneWavelength ==
    (call.op = "setup_canonical_coords" /\ ~IsRaised(call.out)) =>
        LET rs == call.out.items[1]
            cr == call.out.items[2]
            f == field_of_view.fields[call.fi]
        IN  /\ cr.items[3] = call.wvl
            /\ RefSphereWvl(rs) = call.wvl
            /\ f.chief_ray = cr
            /\ (call.pre.kind = "RayPkg" /\ call.pre.items[3] = call.wvl)
                  => call.traced = 0

\* C8: trace_with_opd traces the chief ray only if the Field's cache is empty
\* or holds a package of another wavelength, and leaves the package of the
\* call's wavelength in Field.chief_ray and Field.ref_sphere.
C8_OpdTracesOnMiss ==
    (call.op = "trace_with_opd" /\ ~IsRaised(call.out)) =>
        LET f == field_of_view.fields[call.fi]
            hit == IsChiefRayPkg(call.pre) /\ PkgWvl(call.pre) = call.wvl
        IN  /\ call.traced = (IF hit THEN 0 ELSE 1)
            /\ IsChiefRayPkg(f.chief_ray)
            /\ PkgWvl(f.chief_ray) = call.wvl
            /\ RefSphereWvl(f.ref_sphere) = call.wvl

\* C11: whichever operation wrote Field.chief_ray, the value is a ray package
\* (with .ray samples) the next operation can read: setup_canonical_coords
\* finding a value cached by an earlier call completes instead of failing on it.
C11_ChiefRaySlotReadable ==
    (call.op = "setup_canonical_coords" /\ call.pre # None) =>
        /\ call.pre.kind = "RayPkg"
        /\ ~IsRaised(call.out)

-----------------------------------------------------------------------------
(* Specification SpecSweep: fans, grids and boundary rays at a Field whose
   vignetting update_fields_cv_input sets, through a system that fails to
   pass the rays aimed at the pupil points seq_model.missed *)

MissSets == {{}, {<<0, 0>>}, {<<0, One>>}}
SweepEnds == {<<<<-One, -One>>, <<One, One>>>>,
              <<<<0, -One>>, <<0, One>>>>,
              <<<<0, 0>>, <<One, One>>>>}
\* (start, stop, num) whose samples, and their halves, are exact
SweepRngs ==
    {rng \in {<<e[1], e[2], num>> : e \in SweepEnds, num \in 2..MaxNum} :
        /\ (rng[2][1] - rng[1][1]) % (2 * (rng[3] - 1)) = 0
        /\ (rng[2][2] - rng[1][2]) % (2 * (rng[3] - 1)) = 0}
ImgFilters == {None, Func("image_pt"), Func("skip_none")}
SweepTlas == {TlaCode("V", "U", "X"), TlaCode("V", "L", "Y")}
SweepWvl == 550

InitSweep ==
    /\ spectral_region = NewWvlSpec(<<<<550, One>>>>, 0)
    /\ field_of_view = NewFieldSpec("OBJ_ANG", <<0>>)
    /\ parax_data = None
    /\ seq_model \in {[geom |-> 0, missed |-> m] : m \in MissSets}
    /\ call = [op |-> "__init__"]

\* trace_fan(seq_model, fan_rng, fields[0], wvl, foc, img_filter)
TraceFanCall(fan_rng, img_filter) ==
    /\ parax_data # None
    /\ call' = [op |-> "trace_fan", rng |-> fan_rng, img_filter |-> img_filter,
                out |-> TraceFan(seq_model, field_of_view, parax_data, fan_rng,
                                 field_of_view.fields[1], SweepWvl, img_filter)]
    /\ UNCHANGED <<spectral_region, field_of_view, parax_data, seq_model>>

\* trace_grid(seq_model, grid_rng, fields[0], wvl, foc, img_filter, form,
\*            append_if_none)
TraceGridCall(grid_rng, img_filter, form, append_if_none) ==
    /\ parax_data # None
    /\ call' = [op |-> "trace_grid", rng |-> grid_rng, img_filter |-> img_filter,
                form |-> form, append_if_none |-> append_if_none,
                out |-> TraceGrid(seq_model, field_of_view, parax_data, grid_rng,
                                  field_of_view.fields[1], SweepWvl, img_filter,
                                  form, append_if_none)]
    /\ UNCHANGED <<spectral_region, field_of_view, parax_data, seq_model>>

\* trace_boundary_rays_at_field(seq_model, fields[0], wvl)
TraceBoundaryRaysAtFieldCall ==
    /\ parax_data # None
    /\ call' = [op |-> "trace_boundary_rays_at_field",
                out |-> TraceBoundaryRaysAtField(seq_model, field_of_view, parax_data,
                                                 field_of_view.fields[1], SweepWvl)]
    /\ UNCHANGED <<spectral_region, field_of_view, parax_data, seq_model>>

NextSweep ==
    \/ UpdateModel(0)
    \/ \E tla \in SweepTlas, v \in {0, Half} : UpdateFieldsCvInput(tla, <<v>>)
    \/ \E rng \in SweepRngs, flt \in ImgFilters : TraceFanCall(rng, flt)
    \/ \E rng \in SweepRngs, flt \in ImgFilters, form \in {"list", "grid"},
          append_if_none \in BOOLEAN :
            TraceGridCall(rng, flt, form, append_if_none)
    \/ TraceBoundaryRaysAtFieldCall

SpecSweep == InitSweep /\ [][NextSweep]_vars

\* the samples a grid visits, in the order of its loops
GridSamples(rng) ==
    LET num == rng[3]
        stepx == (rng[2][1] - rng[1][1]) \div (num - 1)
        stepy == (rng[2][2] - rng[1][2]) \div (num - 1)
    IN  [k \in 1..(num * num) |->
            <<rng[1][1] + ((k - 1) \div num) * stepx,
              rng[1][2] + ((k - 1) % num) * stepy>>]
InPupil(s) == s[1] * s[1] + s[2] * s[2] < One * One
RECURSIVE Concat(_)
Concat(rows) == IF rows = <<>> THEN <<>>
                ELSE Head(rows).items \o Concat(Tail(rows))
\* the cells of a returned grid, row by row
GridCells(out, form) == IF form = "list" THEN out.items ELSE Concat(out.items)
UnitGrid3 == <<<<-One, -One>>, <<One, One>>, 3>>

\* C5: trace_grid without a filter visits all num x num samples and traces a
\* sample exactly when x^2 + y^2 < 1; the others are appended as [x, y, None]
\* if append_if_none and omitted otherwise; of the 3x3 grid on [-1,1]^2 only
\* the centre is traced.
C5_GridSamples ==
    (call.op = "trace_grid" /\ call.img_filter = None /\ ~IsRaised(call.out)) =>
        LET S == GridSamples(call.rng)
            inside == SelectSeq(S, InPupil)
            cells == GridCells(call.out, call.form)
            ray(s) == TraceBase(seq_model, field_of_view, parax_data, s,
                                field_of_view.fields[1], SweepWvl)
        IN  /\ call.form = "grid" => Len(call.out.items) = call.rng[3]
            /\ IF call.append_if_none
               THEN /\ Len(cells) = Len(S)
                    /\ \A k \in 1..Len(S) :
                         IF InPupil(S[k])
                         THEN cells[k].items[3] = ray(S[k])
                         ELSE cells[k] = Tuple(<<S[k][1], S[k][2], None>>)
               ELSE /\ Len(cells) = Len(inside)
                    /\ \A k \in 1..Len(inside) : cells[k].items[3] = ray(inside[k])
            /\ call.rng = UnitGrid3 =>
                 /\ Cardinality({k \in 1..Len(cells) : cells[k].items[3] # None}) = 1
                 /\ \A k \in 1..Len(cells) :
                      cells[k].items[3] # None => cells[k].items[3].items[1].pt1 = <<0, 0>>

C5_Witness ==
    /\ call.op = "trace_grid"
    /\ call.img_filter = None
    /\ ~IsRaised(call.out)
    /\ call.rng = UnitGrid3
    /\ call.form = "grid"
    /\ call.append_if_none
    /\ Len(call.out.items) = 3
    /\ field_of_view.fields[1].vux # 0

\* C4: in trace_fan, trace_grid and trace_boundary_rays_at_field a ray the
\* trace primitive fails on does not abort the sweep: the operation returns,
\* its result covers every sample, and the failed sample's cell holds None.
C4_SweepSurvivesFailure ==
    call.op \in {"trace_fan", "trace_grid", "trace_boundary_rays_at_field"} =>
        /\ ~IsRaised(call.out)
        /\ call.op = "trace_fan" => Len(call.out.items) = call.rng[3]
        /\ call.op = "trace_boundary_rays_at_field" =>
             Len(call.out.items) = Len(DefaultPupilRays)
        /\ (call.op = "trace_fan" /\ call.img_filter = None) =>
             \A k \in 1..Len(call.out.items) :
                LET cell == call.out.items[k]
                IN  (cell.items[1] \in seq_model.missed) = (cell.items[2] = None)

-----------------------------------------------------------------------------
(* Specification SpecVig: the vignetting factors of a Field, set by
   update_fields_cv_input, and apply_vignetting on pupil coordinates *)

VigVals == {k * Half : k \in 0..MaxVig}
PupilCoords == {-One, -Half, 0, Half, One}

\* fields[0].apply_vignetting(pupil)
ApplyVignettingCall(pupil) ==
    /\ call' = [op |-> "apply_vignetting", pupil |-> pupil,
                out |-> ApplyVignetting(field_of_view.fields[1], pupil)]
    /\ UNCHANGED <<spectral_region, field_of_view, parax_data, seq_model>>

NextVig ==
    \/ \E tla \in VigTlas, v \in VigVals : UpdateFieldsCvInput(tla, <<v>>)
    \/ \E px \in PupilCoords, py \in PupilCoords : ApplyVignettingCall(<<px, py>>)

SpecVig == Init /\ [][NextVig]_vars

\* C6: apply_vignetting multiplies px by (1 - vlx) when px < 0 and by
\* (1 - vux) when px >= 0, py likewise by (1 - vly) or (1 - vuy); with the four
\* factors 0 it is the identity, and with vux = 0.5 every px >= 0 is halved.
C6_Vignetting ==
    call.op = "apply_vignetting" =>
        LET f == field_of_view.fields[1]
            px == call.pupil[1]
            py == call.pupil[2]
            vx == IF px < 0 THEN f.vlx ELSE f.vux
            vy == IF py < 0 THEN f.vly ELSE f.vuy
        IN  /\ call.out[1] * One = px * (One - vx)
            /\ call.out[2] * One = py * (One - vy)
            /\ (f.vux = 0 /\ f.vuy = 0 /\ f.vlx = 0 /\ f.vly = 0) =>
                  call.out = call.pupil
            /\ (f.vux = Half /\ px >= 0) => 2 * call.out[1] = px

C6_Witness ==
    /\ call.op = "apply_vignetting"
    /\ field_of_view.fields[1].vux = Half
    /\ field_of_view.fields[1].vlx = 0
    /\ call.pupil[1] = One
    /\ call.out[1] = Half
    /\ call.pupil[2] < 0
    /\ field_of_view.fields[1].vly = Half
    /\ call.out[2] # call.pupil[2]

-----------------------------------------------------------------------------
(* Specification SpecMaxField: the positions of the Fields of a FieldSpec,
   set by update_fields_cv_input, and max_field *)

MaxScan == 3        \* fields in the lists of SpecMaxField, the example apart
\* the documented example [(0,0), (0,1), (1,1), (0.3,0.2)], x and y apart
ExampleX == <<0, 0, One, (3 * One) \div 10>>
ExampleY == <<0, One, One, (2 * One) \div 10>>
ScanDLists == UNION {[1..n -> FldVals] : n \in 1..MaxScan} \cup {ExampleX, ExampleY}

\* field_of_view.max_field()
MaxFieldCall ==
    /\ call' = [op |-> "max_field", out |-> MaxField(field_of_view.fields)]
    /\ UNCHANGED <<spectral_region, field_of_view, parax_data, seq_model>>

NextMaxField ==
    \/ \E tla \in PosTlas, dlist \in ScanDLists : UpdateFieldsCvInput(tla, dlist)
    \/ MaxFieldCall

SpecMaxField == Init /\ [][NextMaxField]_vars

\* x^2 + y^2 of field i
FldSqrd(i) == LET f == field_of_view.fields[i] IN f.x * f.x + f.y * f.y

\* C7: with at least one Field, max_field returns the square root of the
\* largest x^2 + y^2 and the index of the first Field attaining it, also when
\* every Field is at (0, 0); for the documented example the index is 2.
C7_MaxField ==
    (call.op = "max_field" /\ Len(field_of_view.fields) >= 1) =>
        LET n == Len(field_of_view.fields)
            first == CHOOSE i \in 1..n :
                        /\ \A j \in 1..n : FldSqrd(j) <= FldSqrd(i)
                        /\ \A j \in 1..(i - 1) : FldSqrd(j) < FldSqrd(i)
        IN  /\ call.out.items[1] = Sqrt(FldSqrd(first))
            /\ call.out.items[2] = PyInt(first - 1)

\* the documented example is reached and max_field returns index 2 on it
C7_Example ==
    /\ call.op = "max_field"
    /\ [i \in 1..Len(field_of_view.fields) |-> field_of_view.fields[i].x] = ExampleX
    /\ [i \in 1..Len(field_of_view.fields) |-> field_of_view.fields[i].y] = ExampleY
    /\ call.out = Tuple(<<Sqrt(2 * One * One), PyInt(2)>>)

-----------------------------------------------------------------------------
(* Specification SpecWvl: a WvlSpec under set_from_list, add and
   central_wvl *)

WvlVals == {486, 656}
WlWts == UNION {[1..n -> {<<w, One>> : w \in WvlVals}] : n \in 1..MaxWvls}

\* WvlSpec(wlwts, ref_wl), ref_wl an index into wlwts
InitWvl ==
    /\ spectral_region \in {NewWvlSpec(wlwts, ref_wl) :
                              wlwts \in WlWts, ref_wl \in 0..(MaxWvls - 1)}
    /\ spectral_region.reference_wvl < Len(spectral_region.wavelengths)
    /\ field_of_view = NewFieldSpec("OBJ_ANG", <<0>>)
    /\ parax_data = None
    /\ seq_model = [geom |-> 0, missed |-> {}]
    /\ call = [op |-> "__init__"]

\* spectral_region.set_from_list(wlwts)
WvlSetFromListCall(wlwts) ==
    /\ spectral_region' = WvlSetFromList(spectral_region, wlwts)
    /\ call' = [op |-> "set_from_list", out |-> None]
    /\ UNCHANGED <<field_of_view, parax_data, seq_model>>

\* spectral_region.add(wl, wt)
WvlAddCall(wl, wt) ==
    /\ Len(spectral_region.wavelengths) < MaxWvls
    /\ LET r == WvlAdd(spectral_region, wl, wt)
       IN  /\ spectral_region' = r.ws
           /\ call' = [op |-> "add", out |-> r.out]
    /\ UNCHANGED <<field_of_view, parax_data, seq_model>>

\* spectral_region.central_wvl()
CentralWvlCall ==
    /\ call' = [op |-> "central_wvl", out |-> CentralWvl(spectral_region)]
    /\ UNCHANGED <<spectral_region, field_of_view, parax_data, seq_model>>

NextWvl ==
    \/ \E wlwts \in WlWts : WvlSetFromListCall(wlwts)
    \/ \E wl \in WvlVals : WvlAddCall(wl, One)
    \/ CentralWvlCall

SpecWvl == InitWvl /\ [][NextWvl]_vars

\* C9: the render colors are those of the current wavelengths: as many as
\* there are wavelengths, [red, blue] for 2 and [red, green, blue] for 3.
C9_ColorsFollowWavelengths ==
    LET n == Len(spectral_region.wavelengths)
        colors == spectral_region.render_colors
    IN  /\ Len(colors) = n
        /\ n = 2 => colors = <<Named("red"), Named("blue")>>
        /\ n = 3 => colors = <<Named("red"), Named("green"), Named("blue")>>

\* C10: reference_wvl is a valid index into wavelengths, so central_wvl
\* returns one of the current wavelengths.
C10_ReferenceValid ==
    /\ PyHasIndex(Tuple(spectral_region.wavelengths), spectral_region.reference_wvl)
    /\ call.op = "central_wvl" =>
          /\ ~IsRaised(call.out)
          /\ \E i \in 1..Len(spectral_region.wavelengths) :
                call.out = PyInt(spectral_region.wavelengths[i])

====
